---- MODULE Spec2Model ----
(***************************************************************************)
(* A model of ODataClient (src/odata-client.py): get with retry and the    *)
(* shared cache, get_paged and get_chunked on top of get, post, and        *)
(* parse_query (src/odata-utilities.py).                                   *)
(*                                                                         *)
(* Strings are sequences of tokens: "?", "&", "=", "/", "#" are the        *)
(* characters the code looks at, every other token ("h", "a", "$top", "1") *)
(* stands for a run of characters that holds none of them.                 *)
(***************************************************************************)
EXTENDS Integers, Sequences, FiniteSets, TLC

\* ---------------------------------------------------------------- bounds
\* get calls the caller makes in one behaviour of Spec
MaxCalls == 3
\* get_paged calls the caller makes in one behaviour of SpecPaged
MaxPagedCalls == 1
\* largest page_size a caller passes to get_paged
MaxPageSize == 2
\* largest total (@odata.count) the server reports
MaxTotal == 4
\* get_chunked calls the caller makes in one behaviour of SpecChunked
MaxChunkedCalls == 1
\* longest to_chunk_list a caller passes to get_chunked
MaxValues == 5
\* largest chunk_size a caller passes to get_chunked
MaxChunk == 2
\* post calls the caller makes in one behaviour of SpecPost
MaxPostCalls == 2
\* get calls each of the two clients makes in one behaviour of SpecTwo
MaxTwoCalls == 2

\* ------------------------------------------------------ program constants
SLEEP_TIME == 60
RETRIES == 1
\* self.query_cache_timeout_hours as __init__ sets it
DefaultTimeoutHours == 48
\* another value a caller may assign to query_cache_timeout_hours
OtherTimeoutHours == 24

\* ---------------------------------------------------------------- strings
Min(a, b) == IF a <= b THEN a ELSE b

\* the first index of token t in s, 0 when s does not hold it (str.find + 1)
IndexOf(s, t) ==
    IF \E i \in 1..Len(s) : s[i] = t
    THEN CHOOSE i \in 1..Len(s) : s[i] = t /\ \A j \in 1..(i - 1) : s[j] # t
    ELSE 0

RECURSIVE Split(_, _)
\* str.split(sep): the pieces between the separators, empty pieces kept
Split(s, sep) ==
    LET i == IndexOf(s, sep) IN
    IF i = 0 THEN <<s>>
    ELSE <<SubSeq(s, 1, i - 1)>> \o Split(SubSeq(s, i + 1, Len(s)), sep)

RECURSIVE StripSlash(_)
\* uri.strip('/'): every leading and every trailing "/" removed
StripSlash(s) ==
    IF s # <<>> /\ s[1] = "/" THEN StripSlash(Tail(s))
    ELSE IF s # <<>> /\ s[Len(s)] = "/" THEN StripSlash(SubSeq(s, 1, Len(s) - 1))
    ELSE s

\* the decimal digits of the numbers the model formats
Digits == <<"0", "1", "2", "3", "4", "5", "6", "7", "8", "9">>

RECURSIVE NumStr(_)
\* str(n) of a natural number, one token per digit
NumStr(n) == IF n < 10 THEN <<Digits[n + 1]>> ELSE NumStr(n \div 10) \o <<Digits[(n % 10) + 1]>>

RECURSIVE StrNum(_)
\* int(s) of a string of decimal digits (the server reading $top and $skip)
StrNum(s) ==
    IF s = <<>> THEN 0
    ELSE 10 * StrNum(SubSeq(s, 1, Len(s) - 1)) + (IndexOf(Digits, s[Len(s)]) - 1)

\* --------------------------------------------------------------- urlparse
\* urlparse(url).query: what follows the first "?" of the part before "#"
UrlQuery(url) ==
    LET h == IndexOf(url, "#")
        pre == IF h = 0 THEN url ELSE SubSeq(url, 1, h - 1)
        q == IndexOf(pre, "?")
    IN  IF q = 0 THEN <<>> ELSE SubSeq(pre, q + 1, Len(pre))

\* dict[key] = value: an existing key keeps its place and takes the new value
DictSet(items, k, v) ==
    IF \E i \in 1..Len(items) : items[i].k = k
    THEN [i \in 1..Len(items) |-> IF items[i].k = k THEN [k |-> k, v |-> v] ELSE items[i]]
    ELSE Append(items, [k |-> k, v |-> v])

RECURSIVE ParseParams(_, _)
\* the loop of parse_query over the pieces of the query string: ok is FALSE when
\* [key, value] = param.split('=', 1) has one element only (ValueError)
ParseParams(params, items) ==
    IF params = <<>> THEN [ok |-> TRUE, items |-> items]
    ELSE LET p == Head(params)
             e == IndexOf(p, "=")
         IN  IF p = <<>> THEN ParseParams(Tail(params), items)
             ELSE IF e = 0 THEN [ok |-> FALSE, items |-> items]
             ELSE ParseParams(Tail(params),
                              DictSet(items, SubSeq(p, 1, e - 1), SubSeq(p, e + 1, Len(p))))

\* parse_query(urlparse(url)): the ordered dictionary of the query's parameters
parse_query(url) == ParseParams(Split(UrlQuery(url), "&"), <<>>)

\* key in query
HasKey(items, k) == \E i \in 1..Len(items) : items[i].k = k

\* query[key], for a key the dictionary holds
DictGet(items, k) == items[CHOOSE i \in 1..Len(items) : items[i].k = k].v

\* ----------------------------------------------------------------- values
\* None
NoneVal == [tag |-> "None"]
\* a decoded JSON body handed to the caller
BodyVal(b) == [tag |-> "body", body |-> b]
\* an exception that leaves the method
Raise(e) == [tag |-> "raise", exc |-> e]
\* the method has not returned yet
Pending == [tag |-> "pending"]
\* get_paged's {'value': results}
Container(r) == [tag |-> "dict", value |-> r]

\* the JSON object {}
EmptyBody == [empty |-> TRUE, value |-> <<>>, count |-> 0]
\* the JSON object {'value': v, '@odata.count': c}
Listing(v, c) == [empty |-> FALSE, value |-> v, count |-> c]

\* bool(x) of a value get handles: None and an empty dict are falsy
Truthy(x) == x.tag = "body" /\ ~x.body.empty

\* bool(x) of the use_cache argument (None, True or False)
ArgTruthy(use) == use = "True"

\* the values of the use_cache argument
UseArgs == {"None", "True", "False"}

\* ------------------------------------------------------------------ cache
\* RedisCache.retrieve(key): the stored body, None when the key is absent
Retrieve(c, key) ==
    IF \E e \in c : e.key = key
    THEN BodyVal((CHOOSE e \in c : e.key = key).body)
    ELSE NoneVal

\* RedisCache.store(key, value, hours): the entry of the key, replaced
Store(c, key, body, hours) ==
    {e \in c : e.key # key} \cup {[key |-> key, body |-> body, ttl |-> hours]}

\* ------------------------------------------------------------------ state
VARIABLES
    session,                    \* self._session: "None" or "Session"
    cache_query_requests,       \* self.cache_query_requests
    query_cache_timeout_hours,  \* self.query_cache_timeout_hours
    cache,                      \* ODataClient.__redis_cache: a set of entries
    op,                         \* the method the caller is in: "idle", "get", "get_paged"
    calls,                      \* top-level calls made so far
    gpc,                        \* get: "none" (not running), "loop", "ret"
    guri,                       \* get: uri
    guse,                       \* get: use_cache
    gcache,                     \* get: bool(_use_cache)
    gfound,                     \* get: cached_value, or Pending when retrieve was not called
    current_retries,            \* get: current_retries
    gret,                       \* get: the value returned or the exception raised
    greqs,                      \* get: the targets of the HTTP requests issued, in order
    gslept,                     \* get: seconds slept
    gattempts,                  \* get: iterations of the retry loop started
    gstored,                    \* get: store was called
    gexpB,                      \* get: an entry expired between the previous call's start and this one's
    prev,                       \* the previous get call: its uri, _use_cache, requests, result
    expiry,                     \* an entry expired since the running (or last) get call started
    ppc,                        \* get_paged: "none", "loop", "ret"
    purl,                       \* get_paged: url
    psize,                      \* get_paged: page_size
    puse,                       \* get_paged: use_cache
    results,                    \* get_paged: results
    total_records,              \* get_paged: total_records
    pret,                       \* get_paged: the value returned or the exception raised
    pfirst,                     \* get_paged: the total the first page reported, -1 before it
    pages,                      \* get_paged: what each get call of the loop returned, in order
    preqs,                      \* get_paged: the uris passed to get, in order
    sauth,                      \* self._session.auth[0], NoUser while there is no session
    ghint,                      \* get: the principal named by the permission hint logged
    g403,                       \* get: attempts that received status 403
    cpc,                        \* get_chunked: "none", "loop", "ret"
    curl,                       \* get_chunked: url
    cfilter,                    \* get_chunked: filter
    cvalues,                    \* get_chunked: to_chunk_list
    csize,                      \* get_chunked: chunk_size
    cbatches,                   \* get_chunked: chunk(to_chunk_list, chunk_size)
    response_list,              \* get_chunked: response_list
    cret,                       \* get_chunked: the value returned or the exception raised
    creqs,                      \* get_chunked: the uris passed to get, in order
    cresps,                     \* get_chunked: what each get call of the loop returned, in order
    opc,                        \* post: "none", "loop", "ret"
    ouri,                       \* post: uri
    ocmd,                       \* post: command
    post_retries,               \* post: current_retries
    oret,                       \* post: the value returned or the exception raised
    oreqs,                      \* post: the targets of the HTTP requests issued, in order
    oslept,                     \* post: seconds slept
    oouts,                      \* post: what each pass of the try block met, in order
    ohint,                      \* post: the principal named by the permission hint logged
    tsession,                   \* two clients: self._session of each client
    tcalls,                     \* two clients: get calls each client has made
    tpc,                        \* two clients: where each client's get call stands
    tfound,                     \* two clients: cached_value of each client's get call
    tretries,                   \* two clients: current_retries of each client's get call
    tres,                       \* two clients: res.json() of the response each call holds
    tret,                       \* two clients: what each client's get call returns
    stored,                     \* two clients: the bodies stored under the uri so far
    lastw                       \* two clients: the body of the last store, Pending before it

cfgVars == <<session, sauth, cache_query_requests, query_cache_timeout_hours>>
getVars == <<gpc, guri, guse, gcache, gfound, current_retries, gret, greqs, gslept,
             gattempts, gstored, gexpB, ghint, g403>>
pagedVars == <<ppc, purl, psize, puse, results, total_records, pret, pfirst, pages, preqs>>
chunkVars == <<cpc, curl, cfilter, cvalues, csize, cbatches, response_list, cret, creqs,
               cresps>>
postVars == <<opc, ouri, ocmd, post_retries, oret, oreqs, oslept, oouts, ohint>>
twoVars == <<tsession, tcalls, tpc, tfound, tretries, tres, tret, stored, lastw>>
otherVars == <<chunkVars, postVars, twoVars>>
vars == <<cfgVars, cache, op, calls, getVars, prev, expiry, pagedVars, otherVars>>

\* ----------------------------------------------------------------- inputs
\* the uris the caller passes to get: the second differs by a trailing slash only
GetUris == { <<"h", "/", "a">>, <<"h", "/", "a", "/">> }

\* the principals the caller authenticates as
Users == {"alice", "bob"}

\* no session, hence no principal
NoUser == "none"

\* the two client instances of one process
Clients == {1, 2}

\* no get call has finished yet
NoPrev == [uri |-> <<>>, uc |-> FALSE, nreq |-> 0, ok |-> FALSE]

\* the state ODataClient(username, password) leaves: auth opens the session and
\* the next statement of __init__ sets self._session to None
Init ==
    /\ session = "None" /\ sauth = NoUser
    /\ cache_query_requests = FALSE
    /\ query_cache_timeout_hours = DefaultTimeoutHours
    /\ cache = {}
    /\ op = "idle"
    /\ calls = 0
    /\ gpc = "none" /\ guri = <<>> /\ guse = "None" /\ gcache = FALSE
    /\ gfound = Pending /\ current_retries = 0 /\ gret = Pending /\ greqs = <<>>
    /\ gslept = 0 /\ gattempts = 0 /\ gstored = FALSE /\ gexpB = FALSE
    /\ ghint = NoUser /\ g403 = 0
    /\ prev = NoPrev
    /\ expiry = FALSE
    /\ ppc = "none" /\ purl = <<>> /\ psize = 0 /\ puse = "None" /\ results = <<>>
    /\ total_records = -1 /\ pret = Pending /\ pfirst = -1 /\ pages = <<>>
    /\ preqs = <<>>
    /\ cpc = "none" /\ curl = <<>> /\ cfilter = <<>> /\ cvalues = <<>> /\ csize = 0
    /\ cbatches = <<>> /\ response_list = <<>> /\ cret = Pending /\ creqs = <<>>
    /\ cresps = <<>>
    /\ opc = "none" /\ ouri = <<>> /\ ocmd = <<>> /\ post_retries = 0 /\ oret = Pending
    /\ oreqs = <<>> /\ oslept = 0 /\ oouts = <<>> /\ ohint = NoUser
    /\ tsession = [c \in Clients |-> "None"] /\ tcalls = [c \in Clients |-> 0]
    /\ tpc = [c \in Clients |-> "idle"] /\ tfound = [c \in Clients |-> Pending]
    /\ tretries = [c \in Clients |-> 0] /\ tres = [c \in Clients |-> Pending]
    /\ tret = [c \in Clients |-> Pending] /\ stored = {} /\ lastw = Pending

\* ----------------------------------------------------------------- server
\* the bodies a 2xx response to a plain get may decode to
PlainBodies == {EmptyBody, Listing(<<1>>, 1)}

\* the bodies a 2xx response to a get with a $filter may decode to
FilterBodies == {EmptyBody, Listing(<<>>, 0), Listing(<<1>>, 1), Listing(<<2>>, 1)}

Max(a, b) == IF a >= b THEN a ELSE b

\* the bodies a 2xx response to GET target may decode to: for a page request
\* ($top=p, $skip=s) a total c and n records of the listing from place s+1 on,
\* numbered by their place. The server never sends more than p records nor
\* more than the c - s its listing holds there; it may send fewer (a page
\* size of its own), and it may shrink or grow the listing between requests.
ServerBodies(target) ==
    LET q == parse_query(target) IN
    IF q.ok /\ HasKey(q.items, <<"$top">>) /\ HasKey(q.items, <<"$skip">>)
    THEN LET top == StrNum(DictGet(q.items, <<"$top">>))
             skip == StrNum(DictGet(q.items, <<"$skip">>))
         IN  UNION { {Listing([i \in 1..n |-> skip + i], c) : n \in 0..Min(top, Max(0, c - skip))}
                     : c \in 0..MaxTotal }
    ELSE IF q.ok /\ HasKey(q.items, <<"$filter">>) THEN FilterBodies
    ELSE PlainBodies

\* what one pass of the try block of get can meet: the exception raised, or "ok"
\* with the decoded body. With self._session None the attribute lookup
\* self._session.get fails before any request is sent.
Outcomes(target) ==
    IF session = "None"
    THEN {[kind |-> "AttributeError", status |-> 0, body |-> EmptyBody]}
    ELSE {[kind |-> "ok", status |-> 200, body |-> b] : b \in ServerBodies(target)}
         \cup {[kind |-> k, status |-> 0, body |-> EmptyBody] : k \in {"ConnectionError", "Timeout"}}
         \cup {[kind |-> "JSONDecodeError", status |-> 200, body |-> EmptyBody]}
         \cup {[kind |-> "HTTPError", status |-> st, body |-> EmptyBody] : st \in {403, 500}}

\* -------------------------------------------------------------------- get
\* _use_cache = self.cache_query_requests or use_cache and use_cache != False
UseCache(flag, use) == flag \/ (ArgTruthy(use) /\ use # "False")

\* a lookup under the uri as requested, not as passed
LookupKeyStripped(uri) == StripSlash(uri)

\* the key of ODataClient.__redis_cache.retrieve(uri)
LookupKey(uri) == uri

\* a store under the uri as requested, not as passed
StoreKeyStripped(uri) == StripSlash(uri)

\* a store under one key, whatever the uri
StoreKeyShared(uri) == <<"h">>

\* the key of ODataClient.__redis_cache.store(uri, ...)
StoreKey(uri) == uri

\* the target of self._session.get(uri.strip('/'))
Target(uri) == StripSlash(uri)

\* if cached_value:
CacheHit(found) == Truthy(found)

\* a retry test that lets the count run past zero
HasRetriesNonNegative(r) == r >= 0

\* if current_retries:
HasRetries(r) == r # 0

\* the except clauses after the retries are used up: ReqConnError, Timeout and
\* JSONDecodeError break, HTTPError logs and breaks (return None); any other
\* exception is raised again and leaves get
Terminal(o) ==
    IF o.kind \in {"ConnectionError", "Timeout", "JSONDecodeError", "HTTPError"}
    THEN NoneVal
    ELSE Raise(o.kind)

\* get, from its first statement to the start of the retry loop: the caching
\* decision, the cache lookup and return on a hit, current_retries = RETRIES
GetEnter(uri, use) ==
    LET uc == UseCache(cache_query_requests, use)
        found == IF uc THEN Retrieve(cache, LookupKey(uri)) ELSE Pending
        hit == uc /\ CacheHit(found)
    IN  /\ guri' = uri /\ guse' = use /\ gcache' = uc /\ gfound' = found
        /\ gpc' = IF hit THEN "ret" ELSE "loop"
        /\ gret' = IF hit THEN found ELSE Pending
        /\ current_retries' = IF hit THEN 0 ELSE RETRIES
        /\ greqs' = <<>> /\ gslept' = 0 /\ gattempts' = 0 /\ gstored' = FALSE
        /\ ghint' = NoUser /\ g403' = 0
        /\ gexpB' = expiry /\ expiry' = FALSE

\* the caller calls get(uri, use_cache)
GetCall(uri, use) ==
    /\ op = "idle" /\ calls < MaxCalls
    /\ op' = "get" /\ calls' = calls + 1
    /\ GetEnter(uri, use)
    /\ UNCHANGED <<cfgVars, cache, prev, pagedVars, otherVars>>

\* a handler that logs no permission hint
PermissionHintNever(o) == NoUser

\* if res.status_code == 403: the error message names self._session.auth[0]
PermissionHint(o) == IF o.kind = "HTTPError" /\ o.status = 403 THEN sauth ELSE NoUser

\* one pass of the while loop of get: the request, then store and return, or
\* sleep and retry, or the terminal except clauses
GetAttempt ==
    /\ gpc = "loop"
    /\ \E o \in Outcomes(Target(guri)) :
        /\ gattempts' = gattempts + 1
        /\ greqs' = IF o.kind = "AttributeError" THEN greqs ELSE Append(greqs, Target(guri))
        /\ g403' = IF o.kind = "HTTPError" /\ o.status = 403 THEN g403 + 1 ELSE g403
        /\ IF o.kind = "ok"
           THEN /\ cache' = IF gcache
                            THEN Store(cache, StoreKey(guri), o.body, query_cache_timeout_hours)
                            ELSE cache
                /\ gstored' = gcache
                /\ gret' = BodyVal(o.body)
                /\ gpc' = "ret"
                /\ UNCHANGED <<current_retries, gslept, ghint>>
           ELSE IF HasRetries(current_retries)
           THEN /\ gslept' = gslept + SLEEP_TIME
                /\ current_retries' = current_retries - 1
                /\ UNCHANGED <<cache, gstored, gret, gpc, ghint>>
           ELSE /\ gret' = Terminal(o)
                /\ ghint' = PermissionHint(o)
                /\ gpc' = "ret"
                /\ UNCHANGED <<cache, gstored, current_retries, gslept>>
    /\ UNCHANGED <<cfgVars, op, calls, guri, guse, gcache, gfound, gexpB, prev, expiry,
                   pagedVars, otherVars>>

\* what a finished get call leaves for the next one to be compared with
Summary == [uri |-> guri, uc |-> gcache, nreq |-> Len(greqs), ok |-> Truthy(gret)]

\* the frame of get is dropped
GetLeave ==
    /\ gpc' = "none" /\ guri' = <<>> /\ guse' = "None" /\ gcache' = FALSE
    /\ gfound' = Pending /\ current_retries' = 0 /\ gret' = Pending /\ greqs' = <<>>
    /\ gslept' = 0 /\ gattempts' = 0 /\ gstored' = FALSE /\ gexpB' = FALSE
    /\ ghint' = NoUser /\ g403' = 0
    /\ prev' = Summary

\* get hands its result (or its exception) to the caller
GetReturn ==
    /\ op = "get" /\ gpc = "ret"
    /\ op' = "idle"
    /\ GetLeave
    /\ UNCHANGED <<cfgVars, cache, calls, expiry, pagedVars, otherVars>>

\* ------------------------------------------------------------ environment
\* the caller calls auth(username, password): self._session is a new session
\* whose auth is (username, password)
Auth(username) ==
    /\ op = "idle" /\ sauth # username
    /\ session' = "Session" /\ sauth' = username
    /\ UNCHANGED <<cache_query_requests, query_cache_timeout_hours, cache, op, calls,
                   getVars, prev, expiry, pagedVars, otherVars>>

\* the caller assigns self.cache_query_requests
SetCacheFlag ==
    /\ op = "idle"
    /\ cache_query_requests' = ~cache_query_requests
    /\ UNCHANGED <<session, sauth, query_cache_timeout_hours, cache, op, calls, getVars,
                   prev, expiry, pagedVars, otherVars>>

\* the caller assigns self.query_cache_timeout_hours
SetTimeout ==
    /\ op = "idle"
    /\ query_cache_timeout_hours' =
         IF query_cache_timeout_hours = DefaultTimeoutHours
         THEN OtherTimeoutHours ELSE DefaultTimeoutHours
    /\ UNCHANGED <<session, sauth, cache_query_requests, cache, op, calls, getVars, prev,
                   expiry, pagedVars, otherVars>>

\* the time-to-live of a cache entry runs out
Expire ==
    /\ \E e \in cache : cache' = cache \ {e}
    /\ expiry' = TRUE
    /\ UNCHANGED <<cfgVars, op, calls, getVars, prev, pagedVars, otherVars>>

\* -------------------------------------------------------------- get_paged
\* the urls the caller passes to get_paged
PagedUrls == {
    <<"h">>,
    <<"h", "?">>,
    <<"h", "?", "a", "=", "1">>,
    <<"h", "?", "a", "=", "$top">>,
    <<"h", "?", "$top", "=", "1">>,
    <<"h", "?", "a", "=", "1", "&", "$skip", "=", "1">>,
    <<"h", "?", "$count", "=", "true">>,
    <<"h", "?", "a", "=", "1", "&", "$count">> }

\* the page sizes the caller passes
PageSizes == 1..MaxPageSize

\* query_separator = '?' if parsed_url.query == '' else '&'
QuerySeparator(url) == IF UrlQuery(url) = <<>> THEN "?" ELSE "&"

\* a check that forgets $count
HasPagingKeyNoCount(items) == HasKey(items, <<"$top">>) \/ HasKey(items, <<"$skip">>)

\* '$top' in query or '$skip' in query or '$count' in query
HasPagingKey(items) ==
    HasKey(items, <<"$top">>) \/ HasKey(items, <<"$skip">>) \/ HasKey(items, <<"$count">>)

\* a page request that always asks for the first page
PageUrlFirstPage(url, size, res) ==
    url \o <<QuerySeparator(url), "$top", "=">> \o NumStr(size)
        \o <<"&", "$skip", "=">> \o NumStr(0) \o <<"&", "$count", "=", "true">>

\* f'{url}{query_separator}$top={page_size}&$skip={len(results)}&$count=true'
PageUrl(url, size, res) ==
    url \o <<QuerySeparator(url), "$top", "=">> \o NumStr(size)
        \o <<"&", "$skip", "=">> \o NumStr(Len(res)) \o <<"&", "$count", "=", "true">>

\* a loop that goes on until a page is empty or fails
PagedContinueAlways(total, res) == TRUE

\* while total_records == -1 or len(results) < total_records
PagedContinue(total, res) == total = -1 \/ Len(res) < total

\* a loop with no test for an empty page
EmptyPageNever(body) == FALSE

\* if len(response['value']) == 0: break
EmptyPage(body) == Len(body.value) = 0

\* results = response['value']: the page replaces what was accumulated
AccumulateOverwrite(res, body) == body.value

\* results += response['value']
Accumulate(res, body) == res \o body.value

\* a break in place of return None: the records fetched so far are returned
AbsentResultPartial(res) == Container(res)

\* if response is None: return None
AbsentResult(res) == NoneVal

\* the caller calls get_paged(url, page_size, use_cache): the query string is
\* parsed (a parameter with no '=' fails the unpacking in parse_query with a
\* ValueError) and checked for the paging parameters
GetPagedCall(url, size, use) ==
    /\ op = "idle" /\ calls < MaxPagedCalls
    /\ op' = "get_paged" /\ calls' = calls + 1
    /\ purl' = url /\ psize' = size /\ puse' = use
    /\ results' = <<>> /\ total_records' = -1 /\ pfirst' = -1 /\ pages' = <<>>
    /\ preqs' = <<>>
    /\ LET q == parse_query(url) IN
       IF ~q.ok \/ HasPagingKey(q.items)
       THEN ppc' = "ret" /\ pret' = Raise("ValueError")
       ELSE ppc' = "loop" /\ pret' = Pending
    /\ UNCHANGED <<cfgVars, cache, getVars, prev, expiry, otherVars>>

\* the head of the while loop: the next page is asked of get, or the loop ends
\* and get_paged returns {'value': results}
PagedLoop ==
    /\ op = "get_paged" /\ ppc = "loop" /\ gpc = "none"
    /\ IF PagedContinue(total_records, results)
       THEN /\ GetEnter(PageUrl(purl, psize, results), puse)
            /\ preqs' = Append(preqs, PageUrl(purl, psize, results))
            /\ UNCHANGED <<ppc, pret>>
       ELSE /\ ppc' = "ret" /\ pret' = Container(results)
            /\ UNCHANGED <<getVars, expiry, preqs>>
    /\ UNCHANGED <<cfgVars, cache, op, calls, prev, purl, psize, puse, results,
                   total_records, pfirst, pages, otherVars>>

\* what the history of a get_paged call keeps of one get call: None, the
\* exception, the page's record list, or that the body was {} (no 'value')
PageOf(ret) ==
    IF ret.tag # "body" THEN ret
    ELSE IF ret.body.empty THEN [tag |-> "object"]
    ELSE [tag |-> "body", value |-> ret.body.value]

\* the body of the while loop after get has returned (or raised)
PagedHandle ==
    /\ op = "get_paged" /\ ppc = "loop" /\ gpc = "ret"
    /\ pages' = Append(pages, PageOf(gret))
    /\ pfirst' = IF pages = <<>> /\ gret.tag = "body" THEN gret.body.count ELSE pfirst
    /\ IF gret.tag = "raise"
       THEN ppc' = "ret" /\ pret' = gret /\ UNCHANGED <<results, total_records>>
       ELSE IF gret = NoneVal
       THEN ppc' = "ret" /\ pret' = AbsentResult(results)
            /\ UNCHANGED <<results, total_records>>
       ELSE IF gret.body.empty
       THEN ppc' = "ret" /\ pret' = Raise("KeyError")
            /\ UNCHANGED <<results, total_records>>
       ELSE IF EmptyPage(gret.body)
       THEN ppc' = "ret" /\ pret' = Container(results)
            /\ UNCHANGED <<results, total_records>>
       ELSE /\ results' = Accumulate(results, gret.body)
            /\ total_records' = IF total_records = -1 THEN gret.body.count
                                ELSE total_records
            /\ UNCHANGED <<ppc, pret>>
    /\ GetLeave
    /\ UNCHANGED <<cfgVars, cache, op, calls, expiry, purl, psize, puse, preqs, otherVars>>

\* get_paged hands its result (or its exception) to the caller
PagedReturn ==
    /\ op = "get_paged" /\ ppc = "ret"
    /\ op' = "idle"
    /\ ppc' = "none" /\ purl' = <<>> /\ psize' = 0 /\ puse' = "None" /\ results' = <<>>
    /\ total_records' = -1 /\ pret' = Pending /\ pfirst' = -1 /\ pages' = <<>>
    /\ preqs' = <<>>
    /\ UNCHANGED <<cfgVars, cache, calls, getVars, prev, expiry, otherVars>>

\* ------------------------------------------------------------ get_chunked
\* the urls the caller passes to get_chunked
ChunkUrls == {
    <<"h">>,
    <<"h", "?", "a", "=", "1">>,
    <<"h", "?", "$filter", "=", "A">>,
    <<"h", "?", "a", "=", "1", "&", "$filter", "=", "A", "&", "b", "=", "2">>,
    <<"h", "?", "a", "=", "1", "&", "a", "=", "2">>,
    <<"h", "?", "a">> }

\* the filter templates the caller passes: "{}" is the placeholder
FilterTemplates == { <<"Id eq ", "{}">>, <<"{}", " eq ", "{}">> }

\* the value lists the caller passes
ChunkLists == {[i \in 1..n |-> i] : n \in 0..MaxValues} \cup {<<2, 1>>, <<1, 1>>}

\* the chunk sizes the caller passes
ChunkSizes == 1..MaxChunk

\* get_chunked's list of records
ListVal(l) == [tag |-> "list", value |-> l]

\* a chunk that keeps the full batches only
chunkDropsRemainder(array, size) ==
    [i \in 1..(Len(array) \div size) |-> SubSeq(array, (i - 1) * size + 1, i * size)]

\* pydash chunk(array, size): ceil(len/size) slices array[i*size:(i+1)*size]
chunk(array, size) ==
    [i \in 1..((Len(array) + size - 1) \div size) |->
        SubSeq(array, (i - 1) * size + 1, Min(i * size, Len(array)))]

RECURSIVE Replace(_, _)
\* filter.replace('{}', str(chunk_value)): every placeholder is replaced
Replace(template, v) ==
    IF template = <<>> THEN <<>>
    ELSE (IF Head(template) = "{}" THEN NumStr(v) ELSE <<Head(template)>>)
         \o Replace(Tail(template), v)

\* [filter.replace('{}', str(chunk_value)) for chunk_value in list_chunk]
Filters(template, list_chunk) ==
    [i \in 1..Len(list_chunk) |-> Replace(template, list_chunk[i])]

RECURSIVE Join(_, _)
\* sep.join(parts)
Join(parts, sep) ==
    IF parts = <<>> THEN <<>>
    ELSE IF Len(parts) = 1 THEN parts[1]
    ELSE parts[1] \o <<sep>> \o Join(Tail(parts), sep)

\* a merge that adds no parentheses
MergedFilterBare(old, filters) == old \o <<" and ">> \o Join(filters, " or ")

\* f"({query_copy['$filter']}) and ({' or '.join(filters)})"
MergedFilter(old, filters) ==
    <<"(">> \o old \o <<") and (">> \o Join(filters, " or ") \o <<")">>

\* a query whose $filter is always moved to the end
FilteredQueryAppended(query, filters) ==
    LET f == <<"$filter">>
        rest == SelectSeq(query, LAMBDA it : it.k # f)
    IN  IF HasKey(query, f)
        THEN Append(rest, [k |-> f, v |-> MergedFilter(DictGet(query, f), filters)])
        ELSE Append(rest, [k |-> f, v |-> Join(filters, " or ")])

\* query_copy after the if/else that sets query_copy['$filter']
FilteredQuery(query, filters) ==
    LET f == <<"$filter">> IN
    IF HasKey(query, f)
    THEN DictSet(query, f, MergedFilter(DictGet(query, f), filters))
    ELSE DictSet(query, f, Join(filters, " or "))

\* new_str: 'k=v' of every item of query_copy, joined by '&'
QueryString(query) ==
    Join([i \in 1..Len(query) |-> query[i].k \o <<"=">> \o query[i].v], "&")

\* base_url = f"{scheme}://{net_loc}{path}?": the url up to its query and
\* fragment, and a "?"
BaseUrl(url) ==
    LET h == IndexOf(url, "#")
        pre == IF h = 0 THEN url ELSE SubSeq(url, 1, h - 1)
        q == IndexOf(pre, "?")
    IN  (IF q = 0 THEN pre ELSE SubSeq(pre, 1, q - 1)) \o <<"?">>

\* f"{base_url}{new_str}" for one batch
ChunkUrl(url, template, list_chunk) ==
    BaseUrl(url) \o QueryString(FilteredQuery(parse_query(url).items,
                                              Filters(template, list_chunk)))

\* response_list = response['value']: the batch replaces what was accumulated
ChunkAccumulateOverwrite(list, body) == body.value

\* response_list += response['value']
ChunkAccumulate(list, body) == list \o body.value

\* a skipped batch in place of return None: the other batches are returned
ChunkAbsentResultPartial(list) == ListVal(list)

\* if not response: return None
ChunkAbsentResult(list) == NoneVal

\* the caller calls get_chunked(url, filter, to_chunk_list, chunk_size): the
\* query string is parsed (a parameter with no '=' fails the unpacking in
\* parse_query with a ValueError) and the list is cut into batches
GetChunkedCall(url, filter, to_chunk_list, chunk_size) ==
    /\ op = "idle" /\ calls < MaxChunkedCalls
    /\ op' = "get_chunked" /\ calls' = calls + 1
    /\ curl' = url /\ cfilter' = filter /\ cvalues' = to_chunk_list /\ csize' = chunk_size
    /\ response_list' = <<>> /\ creqs' = <<>> /\ cresps' = <<>>
    /\ IF ~parse_query(url).ok
       THEN cpc' = "ret" /\ cret' = Raise("ValueError") /\ cbatches' = <<>>
       ELSE cpc' = "loop" /\ cret' = Pending /\ cbatches' = chunk(to_chunk_list, chunk_size)
    /\ UNCHANGED <<cfgVars, cache, getVars, prev, expiry, pagedVars, postVars, twoVars, twoVars>>

\* the head of the for loop: the next batch's url is asked of get (use_cache
\* is left at its default), or the loop ends and response_list is returned
ChunkLoop ==
    /\ op = "get_chunked" /\ cpc = "loop" /\ gpc = "none"
    /\ IF Len(cresps) < Len(cbatches)
       THEN LET u == ChunkUrl(curl, cfilter, cbatches[Len(cresps) + 1]) IN
            /\ GetEnter(u, "None")
            /\ creqs' = Append(creqs, u)
            /\ UNCHANGED <<cpc, cret>>
       ELSE /\ cpc' = "ret" /\ cret' = ListVal(response_list)
            /\ UNCHANGED <<getVars, expiry, creqs>>
    /\ UNCHANGED <<cfgVars, cache, op, calls, prev, pagedVars, postVars, twoVars, curl, cfilter,
                   cvalues, csize, cbatches, response_list, cresps>>

\* what the history of a get_chunked call keeps of one get call: None, the
\* exception, or the body's record list and whether the body was {}
ChunkOf(ret) ==
    IF ret.tag = "body"
    THEN [tag |-> "body", value |-> ret.body.value, empty |-> ret.body.empty]
    ELSE ret

\* the body of the for loop after get has returned (or raised)
ChunkHandle ==
    /\ op = "get_chunked" /\ cpc = "loop" /\ gpc = "ret"
    /\ cresps' = Append(cresps, ChunkOf(gret))
    /\ IF gret.tag = "raise"
       THEN cpc' = "ret" /\ cret' = gret /\ UNCHANGED response_list
       ELSE IF ~Truthy(gret)
       THEN cpc' = "ret" /\ cret' = ChunkAbsentResult(response_list)
            /\ UNCHANGED response_list
       ELSE /\ response_list' = ChunkAccumulate(response_list, gret.body)
            /\ UNCHANGED <<cpc, cret>>
    /\ GetLeave
    /\ UNCHANGED <<cfgVars, cache, op, calls, expiry, pagedVars, postVars, twoVars, curl, cfilter,
                   cvalues, csize, cbatches, creqs>>

\* get_chunked hands its result (or its exception) to the caller
ChunkReturn ==
    /\ op = "get_chunked" /\ cpc = "ret"
    /\ op' = "idle"
    /\ cpc' = "none" /\ curl' = <<>> /\ cfilter' = <<>> /\ cvalues' = <<>> /\ csize' = 0
    /\ cbatches' = <<>> /\ response_list' = <<>> /\ cret' = Pending /\ creqs' = <<>>
    /\ cresps' = <<>>
    /\ UNCHANGED <<cfgVars, cache, calls, getVars, prev, expiry, pagedVars, postVars, twoVars, twoVars>>

\* -------------------------------------------------------------------- post
\* the uris the caller passes to post
PostUris == GetUris

\* the commands the caller passes to post
PostCommands == { <<>>, <<"cmd">> }

\* f"{uri.strip('/')}/{command}"
PostTarget(uri, command) == StripSlash(uri) \o <<"/">> \o command

\* what one pass of the try block of post can meet: the exception raised, or
\* "ok" with the decoded body. json tells whether res.json() decodes the
\* body of the response. With self._session None the attribute lookup
\* self._session.post fails before any request is sent.
PostOutcomes ==
    IF session = "None"
    THEN {[kind |-> "AttributeError", status |-> 0, body |-> EmptyBody, json |-> FALSE]}
    ELSE {[kind |-> "ok", status |-> 200, body |-> b, json |-> TRUE] : b \in PlainBodies}
         \cup {[kind |-> k, status |-> 0, body |-> EmptyBody, json |-> FALSE]
                 : k \in {"ConnectionError", "Timeout"}}
         \cup {[kind |-> "JSONDecodeError", status |-> 200, body |-> EmptyBody, json |-> FALSE]}
         \cup {[kind |-> "HTTPError", status |-> st, body |-> EmptyBody, json |-> j]
                 : st \in {403, 500}, j \in BOOLEAN}

\* how post ends when no retry is left: the except HTTPError clause logs
\* res.json(), which raises when the error body is not JSON, then raises
\* RuntimeError for a 403 and breaks otherwise; the except Exception clause
\* logs and breaks to return None
PostTerminal(o) ==
    IF o.kind = "HTTPError"
    THEN IF ~o.json THEN Raise("JSONDecodeError")
         ELSE IF o.status = 403 THEN Raise("RuntimeError")
         ELSE NoneVal
    ELSE NoneVal

\* the permission hint of post is logged after res.json() has been logged
PostPermissionHint(o) == IF o.json THEN PermissionHint(o) ELSE NoUser

\* the caller calls post(uri, command): current_retries = RETRIES
PostCall(uri, command) ==
    /\ op = "idle" /\ calls < MaxPostCalls
    /\ op' = "post" /\ calls' = calls + 1
    /\ opc' = "loop" /\ ouri' = uri /\ ocmd' = command /\ post_retries' = RETRIES
    /\ oret' = Pending /\ oreqs' = <<>> /\ oslept' = 0 /\ oouts' = <<>> /\ ohint' = NoUser
    /\ UNCHANGED <<cfgVars, cache, getVars, prev, expiry, pagedVars, chunkVars, twoVars, twoVars>>

\* one pass of the while loop of post: the request, then return, or sleep and
\* retry, or the terminal except clauses
PostAttempt ==
    /\ op = "post" /\ opc = "loop"
    /\ \E o \in PostOutcomes :
        /\ oouts' = Append(oouts, [kind |-> o.kind, status |-> o.status, json |-> o.json])
        /\ oreqs' = IF o.kind = "AttributeError" THEN oreqs
                    ELSE Append(oreqs, PostTarget(ouri, ocmd))
        /\ IF o.kind = "ok"
           THEN /\ oret' = BodyVal(o.body) /\ opc' = "ret"
                /\ UNCHANGED <<post_retries, oslept, ohint>>
           ELSE IF HasRetries(post_retries)
           THEN /\ oslept' = oslept + SLEEP_TIME
                /\ post_retries' = post_retries - 1
                /\ UNCHANGED <<oret, opc, ohint>>
           ELSE /\ oret' = PostTerminal(o)
                /\ ohint' = PostPermissionHint(o)
                /\ opc' = "ret"
                /\ UNCHANGED <<post_retries, oslept>>
    /\ UNCHANGED <<cfgVars, cache, op, calls, getVars, prev, expiry, pagedVars, chunkVars, twoVars,
                   ouri, ocmd>>

\* post hands its result (or its exception) to the caller
PostReturn ==
    /\ op = "post" /\ opc = "ret"
    /\ op' = "idle"
    /\ opc' = "none" /\ ouri' = <<>> /\ ocmd' = <<>> /\ post_retries' = 0 /\ oret' = Pending
    /\ oreqs' = <<>> /\ oslept' = 0 /\ oouts' = <<>> /\ ohint' = NoUser
    /\ UNCHANGED <<cfgVars, cache, calls, getVars, prev, expiry, pagedVars, chunkVars, twoVars, twoVars>>

\* ------------------------------------------------------------ two clients
\* the uri both clients pass to get, and the use_cache they pass
TwoUri == <<"h", "/", "a", "/">>
TwoUse == "True"

\* the variables of the single client of the other specifications
oneVars == <<cfgVars, op, calls, getVars, prev, expiry, pagedVars, chunkVars, postVars>>

\* Outcomes for the session of client c
TwoOutcomes(c, target) ==
    IF tsession[c] = "None"
    THEN {[kind |-> "AttributeError", status |-> 0, body |-> EmptyBody]}
    ELSE {[kind |-> "ok", status |-> 200, body |-> b] : b \in ServerBodies(target)}
         \cup {[kind |-> k, status |-> 0, body |-> EmptyBody] : k \in {"ConnectionError", "Timeout"}}
         \cup {[kind |-> "JSONDecodeError", status |-> 200, body |-> EmptyBody]}
         \cup {[kind |-> "HTTPError", status |-> st, body |-> EmptyBody] : st \in {403, 500}}

\* a response object shared by the instances: the other client's res
TwoResponseShared(c) ==
    LET other == tres[CHOOSE d \in Clients : d # c]
    IN  IF other.tag = "body" THEN other ELSE tres[c]

\* res.json() of the response client c has received
TwoResponse(c) == tres[c]

\* client c calls auth(username, password)
TwoAuth(c) ==
    /\ tpc[c] = "idle" /\ tsession[c] = "None"
    /\ tsession' = [tsession EXCEPT ![c] = "Session"]
    /\ UNCHANGED <<oneVars, cache, tcalls, tpc, tfound, tretries, tres, tret, stored, lastw>>

\* client c calls get(TwoUri, use_cache=TwoUse)
TwoCall(c) ==
    /\ tpc[c] = "idle" /\ tcalls[c] < MaxTwoCalls
    /\ tcalls' = [tcalls EXCEPT ![c] = @ + 1]
    /\ tpc' = [tpc EXCEPT ![c] = "lookup"]
    /\ UNCHANGED <<oneVars, cache, tsession, tfound, tretries, tres, tret, stored, lastw>>

\* get of client c up to the retry loop: the cache lookup, the return on a
\* hit, current_retries = RETRIES
TwoLookup(c) ==
    /\ tpc[c] = "lookup"
    /\ LET uc == UseCache(cache_query_requests, TwoUse)
           found == IF uc THEN Retrieve(cache, LookupKey(TwoUri)) ELSE Pending
           hit == uc /\ CacheHit(found)
       IN  /\ tfound' = [tfound EXCEPT ![c] = found]
           /\ tpc' = [tpc EXCEPT ![c] = IF hit THEN "ret" ELSE "loop"]
           /\ tret' = [tret EXCEPT ![c] = IF hit THEN found ELSE Pending]
           /\ tretries' = [tretries EXCEPT ![c] = IF hit THEN 0 ELSE RETRIES]
    /\ UNCHANGED <<oneVars, cache, tsession, tcalls, tres, stored, lastw>>

\* one request of client c: the response is held for the store, or the call
\* sleeps and retries, or it ends in an except clause
TwoRequest(c) ==
    /\ tpc[c] = "loop"
    /\ \E o \in TwoOutcomes(c, Target(TwoUri)) :
        IF o.kind = "ok"
        THEN /\ tres' = [tres EXCEPT ![c] = BodyVal(o.body)]
             /\ tpc' = [tpc EXCEPT ![c] = "store"]
             /\ UNCHANGED <<tretries, tret>>
        ELSE IF HasRetries(tretries[c])
        THEN /\ tretries' = [tretries EXCEPT ![c] = @ - 1]
             /\ UNCHANGED <<tres, tpc, tret>>
        ELSE /\ tret' = [tret EXCEPT ![c] = Terminal(o)]
             /\ tpc' = [tpc EXCEPT ![c] = "ret"]
             /\ UNCHANGED <<tres, tretries>>
    /\ UNCHANGED <<oneVars, cache, tsession, tcalls, tfound, stored, lastw>>

\* client c stores res.json() under the uri and returns it
TwoStore(c) ==
    /\ tpc[c] = "store"
    /\ LET body == TwoResponse(c).body
           uc == UseCache(cache_query_requests, TwoUse)
       IN  /\ cache' = IF uc THEN Store(cache, StoreKey(TwoUri), body, query_cache_timeout_hours)
                       ELSE cache
           /\ stored' = IF uc THEN stored \cup {body} ELSE stored
           /\ lastw' = IF uc THEN BodyVal(body) ELSE lastw
           /\ tret' = [tret EXCEPT ![c] = BodyVal(body)]
    /\ tpc' = [tpc EXCEPT ![c] = "ret"]
    /\ UNCHANGED <<oneVars, tsession, tcalls, tfound, tretries, tres>>

\* the get call of client c hands its result (or its exception) to its caller
TwoReturn(c) ==
    /\ tpc[c] = "ret"
    /\ tpc' = [tpc EXCEPT ![c] = "idle"]
    /\ tfound' = [tfound EXCEPT ![c] = Pending]
    /\ tretries' = [tretries EXCEPT ![c] = 0]
    /\ tres' = [tres EXCEPT ![c] = Pending]
    /\ tret' = [tret EXCEPT ![c] = Pending]
    /\ UNCHANGED <<oneVars, cache, tsession, tcalls, stored, lastw>>

\* the caller's get calls, the client's configuration and the cache's expiry
Next ==
    \/ \E uri \in GetUris, use \in UseArgs : GetCall(uri, use)
    \/ GetAttempt
    \/ GetReturn
    \/ \E username \in Users : Auth(username)
    \/ SetCacheFlag
    \/ SetTimeout
    \/ Expire

Spec == Init /\ [][Next]_vars

\* the caller's get_paged calls, the client's configuration and the cache's expiry
NextPaged ==
    \/ \E url \in PagedUrls, size \in PageSizes, use \in UseArgs : GetPagedCall(url, size, use)
    \/ PagedLoop
    \/ GetAttempt
    \/ PagedHandle
    \/ PagedReturn
    \/ \E username \in Users : Auth(username)
    \/ SetCacheFlag
    \/ Expire

SpecPaged == Init /\ [][NextPaged]_vars

\* the caller's get_paged calls and the client's authentication
NextPagedLoop ==
    \/ \E url \in PagedUrls, size \in PageSizes, use \in UseArgs : GetPagedCall(url, size, use)
    \/ PagedLoop
    \/ GetAttempt
    \/ PagedHandle
    \/ PagedReturn
    \/ \E username \in Users : Auth(username)

SpecPagedLoop == Init /\ [][NextPagedLoop]_vars

\* every HTTP request of get finishes: WF_vars(GetAttempt), where
\* ENABLED <<GetAttempt>>_vars is written as the state predicate it is equal
\* to, gpc = "loop" (the try block always meets one of Outcomes)
AttemptFair == []<>(gpc # "loop") \/ []<><<GetAttempt>>_vars

\* a running get_paged call goes on: every HTTP request of get finishes, and
\* the loop of get_paged, which runs in the caller's thread, takes its next
\* step
SpecPagedFair ==
    /\ SpecPagedLoop
    /\ AttemptFair
    /\ WF_vars(PagedLoop)
    /\ WF_vars(PagedHandle)
    /\ WF_vars(PagedReturn)

\* the caller's get_chunked calls and the client's authentication
NextChunked ==
    \/ \E url \in ChunkUrls, filter \in FilterTemplates, to_chunk_list \in ChunkLists,
          chunk_size \in ChunkSizes : GetChunkedCall(url, filter, to_chunk_list, chunk_size)
    \/ ChunkLoop
    \/ GetAttempt
    \/ ChunkHandle
    \/ ChunkReturn
    \/ \E username \in Users : Auth(username)

SpecChunked == Init /\ [][NextChunked]_vars

\* the caller's post calls and the client's authentication
NextPost ==
    \/ \E uri \in PostUris, command \in PostCommands : PostCall(uri, command)
    \/ PostAttempt
    \/ PostReturn
    \/ \E username \in Users : Auth(username)

SpecPost == Init /\ [][NextPost]_vars

\* the urls get_paged refuses: a parameter with no '=', or a paging parameter
RejectedUrls ==
    {url \in PagedUrls : ~parse_query(url).ok \/ HasPagingKey(parse_query(url).items)}

\* the caller's get and post calls and the get_paged calls that are refused,
\* the client's configuration and the cache's expiry
NextCache ==
    \/ \E uri \in GetUris, use \in UseArgs : GetCall(uri, use)
    \/ GetAttempt
    \/ GetReturn
    \/ \E uri \in PostUris, command \in PostCommands : PostCall(uri, command)
    \/ PostAttempt
    \/ PostReturn
    \/ \E url \in RejectedUrls, size \in PageSizes, use \in UseArgs :
          GetPagedCall(url, size, use)
    \/ PagedReturn
    \/ \E username \in Users : Auth(username)
    \/ SetCacheFlag
    \/ SetTimeout
    \/ Expire

SpecCache == Init /\ [][NextCache]_vars

\* the get calls of two clients on one uri, their steps interleaved
NextTwo ==
    \E c \in Clients :
        \/ TwoAuth(c)
        \/ TwoCall(c)
        \/ TwoLookup(c)
        \/ TwoRequest(c)
        \/ TwoStore(c)
        \/ TwoReturn(c)

SpecTwo == Init /\ [][NextTwo]_vars

\* ================================================================= claims
\* -------------------------------------------------------------------- C1
\* C1: every get call of a client as the constructor leaves it ends by
\* returning a decoded body or None; no exception reaches the caller.
C1_GetNeverRaises == gpc = "ret" => gret.tag \in {"body", "None"}

\* -------------------------------------------------------------------- C2
\* C2: one get call issues at most RETRIES+1 HTTP requests, all for the same
\* target; the retry budget is RETRIES when the loop starts, whatever earlier
\* calls used, and drops by one per failed attempt; the call sleeps SLEEP_TIME
\* once per retry, and returns after the attempt that follows the last retry.
C2_RetryBudget ==
    /\ Len(greqs) <= RETRIES + 1
    /\ gattempts <= RETRIES + 1
    /\ \A i, j \in 1..Len(greqs) : greqs[i] = greqs[j]
    /\ gpc = "loop" => /\ gattempts <= RETRIES
                       /\ current_retries = RETRIES - gattempts
                       /\ gslept = SLEEP_TIME * gattempts
    /\ gpc = "ret" /\ gattempts > 0 => gslept = SLEEP_TIME * (gattempts - 1)
    /\ gpc = "ret" /\ gattempts = 0 => gslept = 0

\* a call that used its retry and failed, right after a call that used its retry too
C2_Witness ==
    /\ gpc = "ret" /\ gattempts = RETRIES + 1 /\ Len(greqs) = RETRIES + 1
    /\ gslept = SLEEP_TIME /\ gret = NoneVal
    /\ prev.nreq = RETRIES + 1

\* -------------------------------------------------------------------- C3
\* C3: a get call with use_cache False neither looks the uri up in the cache
\* nor stores the response, whatever cache_query_requests is.
C3_ExplicitFalseDisables ==
    (gpc # "none" /\ guse = "False") => (~gcache /\ gfound = Pending /\ ~gstored)

\* -------------------------------------------------------------------- C4
\* C4: when caching is in effect and the cache holds an entry for the uri, get
\* returns the cached body at once, with no request, retry or sleep, whatever
\* the stored body is.
C4_HitReturnsCached ==
    (gpc # "none" /\ gcache /\ gfound.tag = "body")
        => (gpc = "ret" /\ gret = gfound /\ greqs = <<>> /\ gattempts = 0 /\ gslept = 0)

\* -------------------------------------------------------------------- C5
\* a get call has ended right after another get call on the same uri, both with
\* caching in effect, and no cache entry expired from the start of the first
\* to the end of the second
C5_Pair ==
    /\ gpc = "ret" /\ prev.uri = guri /\ prev.uc /\ gcache
    /\ ~gexpB /\ ~expiry

\* C5 as stated: the two calls issue at most one HTTP request in total.
C5_AtMostOneRequest == C5_Pair => prev.nreq + Len(greqs) <= 1

\* C5 as amended: when the first call returned a non-empty body, the second
\* call issues no request and returns a non-empty body from the cache, so the
\* pair issues at most the RETRIES+1 requests of the first call.
C5_SecondCallFromCache ==
    (C5_Pair /\ prev.ok)
        => /\ Len(greqs) = 0 /\ gattempts = 0
           /\ Truthy(gret) /\ gret = gfound
           /\ prev.nreq + Len(greqs) <= RETRIES + 1

\* the first call needed its retry, the second is served from the cache
C5_Witness ==
    /\ C5_Pair /\ prev.ok /\ prev.nreq = RETRIES + 1
    /\ Len(greqs) = 0 /\ Truthy(gret)

\* -------------------------------------------------------------------- C6
\* C6: the step of get that ends a successful attempt with caching in effect
\* leaves the decoded body in the cache under the uri as the caller passed it,
\* with query_cache_timeout_hours as time-to-live; the body returned is the
\* body stored.
C6_StoreOnSuccess ==
    [][(gpc = "loop" /\ gpc' = "ret" /\ gret'.tag = "body" /\ gcache)
        => /\ gstored'
           /\ \E e \in cache' : /\ e.key = guri
                                /\ e.body = gret'.body
                                /\ e.ttl = query_cache_timeout_hours
           /\ \A e \in cache' : e.key = guri => e.body = gret'.body]_vars

\* a body fetched for a uri with a trailing slash, stored under that uri with a
\* time-to-live the caller has set
C6_Witness ==
    /\ gpc = "ret" /\ gcache /\ gstored /\ gret.tag = "body"
    /\ guri = <<"h", "/", "a", "/">>
    /\ greqs # <<>>
    /\ [key |-> guri, body |-> gret.body, ttl |-> OtherTimeoutHours] \in cache

\* ------------------------------------------------------- get_paged claims
RECURSIVE ConcatPages(_)
\* the record lists of the pages of ps, one after the other
ConcatPages(ps) ==
    IF ps = <<>> THEN <<>>
    ELSE (IF Head(ps).tag = "body" THEN Head(ps).value ELSE <<>>) \o ConcatPages(Tail(ps))

\* the records fetched before page i, which is the $skip of its request
SkipAt(i) == Len(ConcatPages(SubSeq(pages, 1, i - 1)))

\* every get call of the loop returned a body
AllPagesSucceed == \A i \in 1..Len(pages) : pages[i].tag = "body"

\* no page holds fewer records than the total of the first page promises for
\* its place: a full page, or all that is left up to that total
NoShrinkage ==
    \A i \in 1..Len(pages) :
        pages[i].tag = "body" => Len(pages[i].value) >= Min(psize, pfirst - SkipAt(i))

\* every page holds exactly what a listing of pfirst records holds at its place
NoChange ==
    \A i \in 1..Len(pages) :
        pages[i].tag = "body"
            => Len(pages[i].value) = Min(psize, Max(0, pfirst - SkipAt(i)))

\* -------------------------------------------------------------------- C7
\* C7 as stated: when every page succeeds and none falls short of the total T
\* of the first page, get_paged returns {'value': R} with exactly T records,
\* R the pages' record lists in the order fetched.
C7_NoShrinkageGivesTotal ==
    (ppc = "ret" /\ pages # <<>> /\ AllPagesSucceed /\ NoShrinkage)
        => /\ pret = Container(ConcatPages(pages))
           /\ Len(pret.value) = pfirst

\* C7 as amended: when every page succeeds and holds exactly the records a
\* listing of T records has at its place (the listing neither shrinks nor
\* grows during the retrieval), get_paged returns {'value': R} with exactly T
\* records, R the pages' record lists in the order fetched.
C7_StableListingGivesTotal ==
    (ppc = "ret" /\ pages # <<>> /\ AllPagesSucceed /\ NoChange)
        => /\ pret = Container(ConcatPages(pages))
           /\ Len(pret.value) = pfirst

\* three records fetched in two pages of two
C7_Witness ==
    /\ ppc = "ret" /\ AllPagesSucceed /\ NoChange
    /\ psize = 2 /\ pfirst = 3 /\ Len(pages) = 2
    /\ pret = Container(<<1, 2, 3>>)

\* -------------------------------------------------------------------- C8
\* C8: a get call of the loop that returns None is the last one of the
\* get_paged call, and get_paged returns None, not the records fetched before.
C8_AbsentPageGivesAbsent ==
    \A i \in 1..Len(pages) :
        pages[i] = NoneVal
            => /\ i = Len(pages)
               /\ ppc = "ret" /\ gpc = "none"
               /\ pret = NoneVal

\* a page fails after records were accumulated
C8_Witness ==
    /\ ppc = "ret" /\ Len(pages) >= 2 /\ pages[Len(pages)] = NoneVal
    /\ results # <<>> /\ pret = NoneVal

\* -------------------------------------------------------------------- C9
\* C9: a page with zero records is the last one fetched, and get_paged returns
\* the records accumulated before it (none when it is the first page), also
\* when they are fewer than the total captured from the first page.
C9_EmptyPageStops ==
    \A i \in 1..Len(pages) :
        (pages[i].tag = "body" /\ pages[i].value = <<>>)
            => /\ i = Len(pages)
               /\ ppc = "ret" /\ gpc = "none"
               /\ pret = Container(results)
               /\ results = ConcatPages(SubSeq(pages, 1, i - 1))

\* an empty page ends the loop below the captured total
C9_Witness ==
    /\ ppc = "ret" /\ Len(pages) >= 2
    /\ pages[Len(pages)] = [tag |-> "body", value |-> <<>>]
    /\ results # <<>> /\ Len(results) < total_records
    /\ pret = Container(results)

\* ------------------------------------------------------------------- C10
\* the query string of url holds a parameter named name: the name stands at the
\* start of the query or after an "&", and ends the query or is followed by
\* "=" or "&"
ContainsParam(url, name) ==
    LET q == UrlQuery(url) IN
    \E i \in 1..Len(q) :
        /\ q[i] = name
        /\ (i = 1 \/ q[i - 1] = "&")
        /\ (i = Len(q) \/ q[i + 1] \in {"=", "&"})

\* C10: a get_paged call whose url has a parameter named $top, $skip or $count
\* raises ValueError, and no get call (so no request, cache access, retry or
\* sleep) is made for it.
C10_PagingParamRaises ==
    (op = "get_paged" /\ \E n \in {"$top", "$skip", "$count"} : ContainsParam(purl, n))
        => /\ ppc = "ret" /\ pret = Raise("ValueError")
           /\ pages = <<>> /\ gpc = "none"
           /\ greqs = <<>> /\ gslept = 0 /\ gattempts = 0

\* the call is refused on a client that has a session and caches every request
C10_Witness ==
    /\ op = "get_paged" /\ purl = <<"h", "?", "a", "=", "1", "&", "$skip", "=", "1">>
    /\ pret = Raise("ValueError")
    /\ session = "Session" /\ cache_query_requests
\* ----------------------------------------------------- get_chunked claims
\* ceil(n / c)
CeilDiv(n, c) == IF n % c = 0 THEN n \div c ELSE (n \div c) + 1

RECURSIVE ConcatAll(_)
\* the sequences of ss, one after the other
ConcatAll(ss) == IF ss = <<>> THEN <<>> ELSE Head(ss) \o ConcatAll(Tail(ss))

\* the template with each placeholder standing for value v
Instance(template, v) ==
    ConcatAll([i \in 1..Len(template) |->
                 IF template[i] = "{}" THEN NumStr(v) ELSE <<template[i]>>])

\* the disjunction of a batch: the instances of the template for its values,
\* in order, with ' or ' between them
Disjunction(template, batch) ==
    ConcatAll([i \in 1..(2 * Len(batch) - 1) |->
                 IF i % 2 = 1 THEN Instance(template, batch[(i + 1) \div 2])
                 ELSE <<" or ">>])

\* the value of the $filter parameter of the i-th request
FilterSent(i) == DictGet(parse_query(creqs[i]).items, <<"$filter">>)

\* d is a run of s
Contains(s, d) ==
    \E i \in 0..(Len(s) - Len(d)) : SubSeq(s, i + 1, i + Len(d)) = d

\* a get_chunked call is running, or has a result, and its url was parsed
Chunking == cpc # "none" /\ parse_query(curl).ok

\* C11 as stated: a get_chunked call that does not raise has issued exactly
\* ceil(N/C) get requests when it returns
C11_ExactlyCeilRequests ==
    (cpc = "ret" /\ cret.tag # "raise")
        => Len(creqs) = CeilDiv(Len(cvalues), csize)

\* C11: a get_chunked call that returns a list has issued exactly ceil(N/C)
\* get requests, one per batch, none through get_paged, and the list is the
\* concatenation of the batches' record lists in batch order; a call never
\* issues more than ceil(N/C) requests
C11_ListAfterCeilRequests ==
    /\ Chunking => /\ Len(creqs) <= CeilDiv(Len(cvalues), csize)
                   /\ ppc = "none" /\ preqs = <<>>
    /\ (cpc = "ret" /\ cret.tag = "list")
          => /\ Len(creqs) = CeilDiv(Len(cvalues), csize)
             /\ Len(cresps) = Len(creqs)
             /\ cret.value = ConcatPages(cresps)

\* five values in batches of two: three requests, and a list of the three
\* batches' records
C11_Witness ==
    /\ cpc = "ret" /\ cret = ListVal(<<1, 2, 1>>)
    /\ Len(cvalues) = 5 /\ csize = 2 /\ Len(creqs) = 3

\* C12: the batches are runs of consecutive input values of length 1 to
\* chunk_size whose concatenation is the input list, and the filter sent for
\* a batch holds the template's instances for the batch's values, in order,
\* joined by ' or '
C12_BatchesPartitionInput ==
    Chunking =>
        /\ \A i \in 1..Len(cbatches) : Len(cbatches[i]) \in 1..csize
        /\ ConcatAll(cbatches) = cvalues
        /\ \A i \in 1..Len(creqs) :
              Contains(FilterSent(i), Disjunction(cfilter, cbatches[i]))

\* values [1,2,3,4,5], template 'Id eq {}', chunk size 2: the three filters
C12_Witness ==
    /\ cvalues = <<1, 2, 3, 4, 5>> /\ cfilter = <<"Id eq ", "{}">> /\ csize = 2
    /\ curl = <<"h">>
    /\ creqs = << <<"h", "?", "$filter", "=", "Id eq ", "1", " or ", "Id eq ", "2">>,
                  <<"h", "?", "$filter", "=", "Id eq ", "3", " or ", "Id eq ", "4">>,
                  <<"h", "?", "$filter", "=", "Id eq ", "5">> >>

\* C13: a batch whose get returned None is the last one asked and makes
\* get_chunked return None; a list is returned only when every batch's get
\* returned a body
C13_AbsentBatchGivesAbsent ==
    /\ \A i \in 1..Len(cresps) :
          cresps[i] = NoneVal => /\ i = Len(cresps) /\ Len(creqs) = i
                                 /\ cpc = "ret" /\ cret = NoneVal
    /\ (cpc = "ret" /\ cret.tag = "list")
          => /\ Len(cresps) = Len(cbatches)
             /\ \A i \in 1..Len(cresps) : cresps[i].tag = "body"

\* the second of three batches met absence after the first brought a record
C13_Witness ==
    /\ cpc = "ret" /\ cret = NoneVal /\ Len(cbatches) = 3 /\ Len(cresps) = 2
    /\ cresps[1].tag = "body" /\ cresps[1].value = <<1>> /\ cresps[2] = NoneVal

\* C14: with $filter=A in the url the request's filter is (A) and (D), with
\* no $filter in the url it is D, where D is the batch's disjunction
C14_FilterMerged ==
    Chunking =>
        \A i \in 1..Len(creqs) :
            LET query == parse_query(curl).items
                D == Disjunction(cfilter, cbatches[i])
            IN  /\ HasKey(parse_query(creqs[i]).items, <<"$filter">>)
                /\ FilterSent(i) =
                     IF HasKey(query, <<"$filter">>)
                     THEN <<"(">> \o DictGet(query, <<"$filter">>) \o <<") and (">> \o D
                          \o <<")">>
                     ELSE D

\* $filter=A and the batch [1, 2] of 'Id eq {}'
C14_Witness ==
    /\ curl = <<"h", "?", "$filter", "=", "A">> /\ Len(creqs) >= 1
    /\ creqs[1] = <<"h", "?", "$filter", "=", "(", "A", ") and (",
                    "Id eq ", "1", " or ", "Id eq ", "2", ")">>

\* the parameters a query string lists: the key and the value of every
\* non-empty piece between "&", in the order of the string
RawParams(url) ==
    LET pieces == SelectSeq(Split(UrlQuery(url), "&"), LAMBDA p : p # <<>>)
    IN  [i \in 1..Len(pieces) |->
           LET e == IndexOf(pieces[i], "=") IN
           IF e = 0 THEN [k |-> pieces[i], v |-> <<>>]
           ELSE [k |-> SubSeq(pieces[i], 1, e - 1),
                 v |-> SubSeq(pieces[i], e + 1, Len(pieces[i]))]]

\* the parameters of the url with $filter taking the value f where it stands,
\* or added at the end when the url has none
WithFilter(params, f) ==
    IF \E i \in 1..Len(params) : params[i].k = <<"$filter">>
    THEN [i \in 1..Len(params) |->
            IF params[i].k = <<"$filter">> THEN [k |-> <<"$filter">>, v |-> f]
            ELSE params[i]]
    ELSE Append(params, [k |-> <<"$filter">>, v |-> f])

\* every request lists the url's parameters, $filter merged in place or added
ParametersKept ==
    \A i \in 1..Len(creqs) :
        RawParams(creqs[i]) = WithFilter(RawParams(curl), FilterSent(i))

\* no two parameters of the url have the same name
DistinctNames(url) ==
    \A i, j \in 1..Len(RawParams(url)) :
        RawParams(url)[i].k = RawParams(url)[j].k => i = j

\* C20 as stated: every request of get_chunked lists the url's original
\* parameters in their order with their values, $filter merged in place or
\* appended last
C20_OriginalParametersKept == Chunking => ParametersKept

\* C20: for a url whose parameter names are distinct, every request lists the
\* url's parameters in their order with their values, an existing $filter in
\* its place with the merged value, an absent one appended last; equal batches
\* of one call get equal requests
C20_DistinctParametersKept ==
    Chunking =>
        /\ DistinctNames(curl) => ParametersKept
        /\ \A i, j \in 1..Len(creqs) : cbatches[i] = cbatches[j] => creqs[i] = creqs[j]

\* $filter between two other parameters stays between them, and two equal
\* batches were asked
C20_Witness ==
    /\ curl = <<"h", "?", "a", "=", "1", "&", "$filter", "=", "A", "&", "b", "=", "2">>
    /\ cvalues = <<1, 1>> /\ csize = 1 /\ Len(creqs) = 2
    /\ creqs[2] = <<"h", "?", "a", "=", "1", "&", "$filter", "=",
                    "(", "A", ") and (", "Id eq ", "1", ")", "&", "b", "=", "2">>

LastOut == oouts[Len(oouts)]

\* C16 as stated: a post whose last attempt, the retry used up, received 403
\* raises RuntimeError
C16_ForbiddenPostRaises ==
    (opc = "ret" /\ Len(oouts) = RETRIES + 1
       /\ LastOut.kind = "HTTPError" /\ LastOut.status = 403)
        => oret = Raise("RuntimeError")

\* C17 as stated: a post whose last attempt failed with an HTTP error other
\* than 403, or with a failure that is not an HTTP error, returns None
C17_OtherFailurePostReturnsAbsent ==
    (opc = "ret" /\ oouts # <<>> /\ LastOut.kind # "ok"
       /\ ~(LastOut.kind = "HTTPError" /\ LastOut.status = 403))
        => oret = NoneVal

\* ---------------------------------------------------------- session claim
\* C18 as stated: the constructed client holds an authenticated session that
\* carries the principal it was given
C18_ConstructedHoldsSession == session = "Session" /\ sauth \in Users

\* ------------------------------------------------------ page request claim
\* what the i-th page request holds after the url and the separator
Appended(i) == SubSeq(preqs[i], Len(purl) + 2, Len(preqs[i]))

\* the value of parameter name among the parameters appended to the url in
\* the i-th page request
PageParam(i, name) == DictGet(ParseParams(Split(Appended(i), "&"), <<>>).items, <<name>>)

\* C19: every page request carries $top = page_size, $count=true and $skip =
\* the records accumulated before it; the first $skip is 0 and the $skip
\* values strictly increase; the termination total, once set, is the total of
\* the first page, which was not empty; a page is asked only when every
\* earlier one has been answered
C19_PageRequests ==
    /\ \A i \in 1..Len(preqs) :
          /\ PageParam(i, "$top") = NumStr(psize)
          /\ PageParam(i, "$count") = <<"true">>
          /\ StrNum(PageParam(i, "$skip")) = SkipAt(i)
    /\ preqs # <<>> => PageParam(1, "$skip") = <<"0">>
    /\ \A i, j \in 1..Len(preqs) :
          i < j => StrNum(PageParam(i, "$skip")) < StrNum(PageParam(j, "$skip"))
    /\ total_records # -1
          => /\ total_records = pfirst
             /\ pages # <<>> /\ pages[1].tag = "body" /\ pages[1].value # <<>>
    /\ Len(preqs) = Len(pages) + (IF gpc = "none" THEN 0 ELSE 1)

\* two pages of two records: the second request skips the two of the first
C19_Witness ==
    /\ ppc = "ret" /\ purl = <<"h">> /\ psize = 2 /\ pret = Container(<<1, 2, 3, 4>>)
    /\ total_records = 4
    /\ preqs = << <<"h", "?", "$top", "=", "2", "&", "$skip", "=", "0", "&", "$count", "=", "true">>,
                  <<"h", "?", "$top", "=", "2", "&", "$skip", "=", "2", "&", "$count", "=", "true">> >>

\* ------------------------------------------------------- separator claim
\* the number of tokens t in s
CountOf(s, t) == Cardinality({i \in 1..Len(s) : s[i] = t})

\* every piece of the query string between "&" is name=value
WellFormedQuery(url) ==
    \A p \in {Split(UrlQuery(url), "&")[i] : i \in 1..Len(Split(UrlQuery(url), "&"))} :
        /\ IndexOf(p, "=") > 1
        /\ "?" \notin {p[i] : i \in 1..Len(p)}

\* C21 as stated: the pagination parameters follow "?" when the url has no
\* query string and "&" when it has one, and every page request holds exactly
\* one "?", followed by a well-formed query string
C21_OneQuestionMark ==
    \A i \in 1..Len(preqs) :
        /\ preqs[i][Len(purl) + 1] = (IF UrlQuery(purl) = <<>> THEN "?" ELSE "&")
        /\ CountOf(preqs[i], "?") = 1
        /\ WellFormedQuery(preqs[i])

\* ------------------------------------------------------------ cache claim
\* the step adds an entry to the cache, or changes one
Written == ~(cache' \subseteq cache)

\* C22: every step that writes the cache is the step of a get call in which
\* a request for the call's uri is answered with a decodable 2xx response,
\* and it leaves under that uri the decoded body, which the call returns; a
\* get call that ends in None, a post call and a refused get_paged call write
\* nothing
C22_CacheWrites ==
    [][/\ Written
          => /\ gpc = "loop" /\ gpc' = "ret" /\ gret'.tag = "body"
             /\ greqs' = Append(greqs, StripSlash(guri))
             /\ cache' = {e \in cache : e.key # guri}
                           \cup {[key |-> guri, body |-> gret'.body,
                                  ttl |-> query_cache_timeout_hours]}
       /\ (gpc = "loop" /\ gpc' = "ret" /\ gret' = NoneVal) => ~Written
       /\ (op = "post" \/ op' = "post") => ~Written
       /\ (op' = "get_paged" /\ pret' = Raise("ValueError")) => ~Written
       /\ (op = "get_paged" /\ pret = Raise("ValueError")) => ~Written]_vars

\* a post call has sent its requests and ended while the cache holds an entry
C22_Witness ==
    /\ op = "post" /\ opc = "ret" /\ oreqs # <<>>
    /\ \E e \in cache : e.key = <<"h", "/", "a", "/">> /\ e.body = Listing(<<1>>, 1)

\* ------------------------------------------------------ termination claim
\* the page requests of the running call are at most one more than the total
\* it captured, and at most one while it has captured none
RequestsBounded ==
    Len(preqs) <= (IF total_records = -1 THEN 0 ELSE total_records) + 1

\* C23: a get_paged call never issues more page requests than one more than
\* the total it captured, and every get_paged call returns to its caller
C23_PagedTerminates ==
    /\ []RequestsBounded
    /\ (op = "get_paged") ~> (op = "idle")

\* a listing of four records fetched in four page requests
C23_Witness ==
    /\ ppc = "ret" /\ total_records = 4 /\ Len(preqs) = 4
    /\ pret = Container(<<1, 2, 3, 4>>)

\* ------------------------------------------------------ two clients claim
\* what the finished call of client c returns is the body of the response
\* the call received for the uri, or the body its lookup found in the cache,
\* which a call had stored there
FromServerOrCache(c) ==
    \/ /\ tret[c] = tres[c]
       /\ tres[c].body \in ServerBodies(Target(TwoUri))
    \/ /\ tret[c] = tfound[c]
       /\ tfound[c].body \in stored

\* no call of the two clients is running
BothFinished == \A c \in Clients : tpc[c] \in {"idle", "ret"}

====
